---- MODULE Spec2Model ----
(***************************************************************************)
(* AutoDocu: a directory-level documentation generator.                    *)
(*                                                                         *)
(* The module models                                                       *)
(*   - auto_docstring_functions.py: extraction of the functions that lack  *)
(*     a docstring (ast.walk) and the splice of the generated docstrings   *)
(*     into the source lines (SpecDoc);                                    *)
(*   - auto_docu.py / auto_comment_functions.py / auto_summary.py: the     *)
(*     six-stage pipeline of orchestrate_all over a small file system      *)
(*     (Spec);                                                             *)
(*   - the functions find_all_python_files, get_auto_docu_path,            *)
(*     generate_readme and describe_directory_structure called on their    *)
(*     own (SpecFn).                                                       *)
(***************************************************************************)
EXTENDS Integers, Sequences, FiniteSets, TLC

\* ------------------------------------------------------------------------
\* Bounds
\* ------------------------------------------------------------------------
\* longest source file, in lines, handed to the docstring inserter
MaxLines == 4

\* ------------------------------------------------------------------------
\* Generic helpers
\* ------------------------------------------------------------------------
Min(a, b) == IF a < b THEN a ELSE b

RECURSIVE SortedSeq(_)
\* the elements of a finite set of integers in increasing order
SortedSeq(S) ==
    IF S = {} THEN <<>>
    ELSE LET m == CHOOSE x \in S : \A y \in S : x <= y
         IN  <<m>> \o SortedSeq(S \ {m})

\* reversed(list(...))
Reverse(s) == [i \in 1..Len(s) |-> s[Len(s) + 1 - i]]

\* an assignment lines[idx] = x in the place of list.insert: the element
\* at idx is overwritten (appended when idx is past the end)
ListInsert_Overwrite(s, idx, x) ==
    IF idx >= Len(s) THEN Append(s, x)
    ELSE [i \in 1..Len(s) |-> IF i = idx + 1 THEN x ELSE s[i]]

\* list.insert(idx, x) with idx >= 0: positions past the end append
ListInsert(s, idx, x) ==
    LET k == Min(idx, Len(s))
    IN  SubSeq(s, 1, k) \o <<x>> \o SubSeq(s, k + 1, Len(s))

\* ------------------------------------------------------------------------
\* Python source files as the parser sees them
\*
\* A source is a sequence of physical lines; a line has a kind and an
\* indentation depth (col_offset = 4 * depth).
\*   "def"   header of a function whose body follows on the next lines
\*   "def1"  a function whose body is on the def line:  def f(): pass
\*   "class" header of a class
\*   "stmt"  a simple statement
\*   "str"   an expression statement holding a string constant
\*   "cmt"   a blank or comment line (no syntax-tree node)
\* ------------------------------------------------------------------------
Openers == {"def", "class"}
CodeKinds == {"def", "def1", "class", "stmt", "str"}

LastCode(p) ==
    LET C == {j \in 1..Len(p) : p[j].kind # "cmt"}
    IN  IF C = {} THEN 0 ELSE CHOOSE j \in C : \A k \in C : k <= j

\* the lines that may follow p in a file that parses
NextLines(p) ==
    LET c == LastCode(p)
        depths == IF c = 0 THEN {0}
                  ELSE IF p[c].kind \in Openers THEN {p[c].depth + 1}
                  ELSE 0..p[c].depth
    IN  {[kind |-> k, depth |-> d] : k \in CodeKinds, d \in depths}
          \cup {[kind |-> "cmt", depth |-> 0]}

RECURSIVE Prefixes(_)
Prefixes(n) ==
    IF n = 0 THEN {<<>>}
    ELSE LET P == Prefixes(n - 1)
         IN  P \cup UNION {{Append(p, l) : l \in NextLines(p)} :
                             p \in {q \in P : Len(q) = n - 1}}

\* a file parses when no block is left without a body
Parses(p) == LastCode(p) = 0 \/ p[LastCode(p)].kind \notin Openers

Sources == {p \in Prefixes(MaxLines) : Parses(p)}

\* ------------------------------------------------------------------------
\* The syntax tree (ast): node 0 is the Module, node i the statement that
\* starts on line i
\* ------------------------------------------------------------------------
NodeDepth(p, i) == IF i = 0 THEN 0 - 1 ELSE p[i].depth

\* node.body as the set of the lines its statements start on
Body(p, i) ==
    IF i # 0 /\ p[i].kind \notin Openers THEN {}
    ELSE {j \in (i + 1)..Len(p) :
            /\ p[j].kind # "cmt"
            /\ p[j].depth = NodeDepth(p, i) + 1
            /\ \A k \in (i + 1)..(j - 1) :
                   p[k].kind # "cmt" => p[k].depth > NodeDepth(p, i)}

\* ast.iter_child_nodes: the statements of the body in source order
iter_child_nodes(p, i) == SortedSeq(Body(p, i))

RECURSIVE walk_queue(_, _)
\* ast.walk: breadth first, a deque that is popped on the left and
\* extended with the children of the popped node
walk_queue(p, todo) ==
    IF todo = <<>> THEN <<>>
    ELSE LET node == Head(todo)
         IN  <<node>> \o walk_queue(p, Tail(todo) \o iter_child_nodes(p, node))

ast_walk(p) == walk_queue(p, <<0>>)

IsFunctionDef(p, i) == i # 0 /\ p[i].kind \in {"def", "def1"}

\* node.body[0].lineno
Body0Lineno(p, i) ==
    IF p[i].kind = "def1" THEN i
    ELSE CHOOSE j \in Body(p, i) : \A k \in Body(p, i) : j <= k

\* ast.get_docstring(node) is not None
HasDocstring(p, i) == p[i].kind = "def" /\ p[Body0Lineno(p, i)].kind = "str"

col_offset(p, i) == 4 * p[i].depth

\* ------------------------------------------------------------------------
\* auto_docstring_functions.py
\* ------------------------------------------------------------------------
\* the list `missing`: the FunctionDef nodes without docstring, in the order
\* ast.walk yields them
extract_functions_missing_docstrings(p) ==
    SelectSeq(ast_walk(p), LAMBDA i : IsFunctionDef(p, i) /\ ~HasDocstring(p, i))

\* source.splitlines(): every element remembers the line it came from
SplitLines(p) == [i \in 1..Len(p) |-> [t |-> "src", n |-> i, text |-> "", indent |-> 0]]

\* the value of `written` while the file has not been rewritten: a list
\* element that is neither a source line nor a docstring
NotWritten == <<[t |-> "none", n |-> 0, text |-> "", indent |-> 0]>>

\* the single list element built from one docstring
DocElement(p, node, doc) ==
    [t |-> "doc", n |-> node, text |-> doc, indent |-> col_offset(p, node) + 4]

\* the pairs in the order the loop of insert_docstrings visits them
InsertOrder(func_nodes, docs) ==
    LET n == Min(Len(func_nodes), Len(docs))
    IN  Reverse([i \in 1..n |-> [node |-> func_nodes[i], doc |-> docs[i]]])

\* one iteration of the loop of insert_docstrings
InsertOne(p, ls, pair) ==
    ListInsert(ls, Body0Lineno(p, pair.node) - 1, DocElement(p, pair.node, pair.doc))

\* ------------------------------------------------------------------------
\* Texts, names and paths
\*
\* A text is the sequence of its lines.  A path is the sequence of its parts
\* (pathlib's Path.parts); an absolute path starts with the part "/".
\* ------------------------------------------------------------------------
\* every file or directory name of the model in sorted() order (code point
\* order), with what follows its last dot
NameTable == <<
    [name |-> ".git",                             suffix |-> ""],
    [name |-> "/",                                suffix |-> ""],
    [name |-> "A",                                suffix |-> ""],
    [name |-> "B",                                suffix |-> ""],
    [name |-> "C.py",                             suffix |-> "py"],
    [name |-> "D",                                suffix |-> ""],
    [name |-> "README.md",                        suffix |-> "md"],
    [name |-> "README_1_directory_structure.txt", suffix |-> "txt"],
    [name |-> "README_2_directory_summary.txt",   suffix |-> "txt"],
    [name |-> "README_3_job_summaries.txt",       suffix |-> "txt"],
    [name |-> "__pycache__",                      suffix |-> ""],
    [name |-> "auto_docu_output",                 suffix |-> ""],
    [name |-> "d.py",                             suffix |-> "py"],
    [name |-> "m.py",                             suffix |-> "py"],
    [name |-> "notes.txt",                        suffix |-> "txt"],
    [name |-> "venv",                             suffix |-> ""] >>

NameRank(n) == CHOOSE i \in 1..Len(NameTable) : NameTable[i].name = n

\* name.endswith("." + suf), fnmatch(name, "*." + suf)
EndsWith(n, suf) == NameTable[NameRank(n)].suffix = suf

RECURSIVE SortNames(_)
\* sorted(names)
SortNames(S) ==
    IF S = {} THEN <<>>
    ELSE LET m == CHOOSE x \in S : \A y \in S : NameRank(x) <= NameRank(y)
         IN  <<m>> \o SortNames(S \ {m})

Range(s) == {s[i] : i \in 1..Len(s)}

\* the orders an unordered directory scan may deliver a set in
Perms(S) ==
    {s \in [1..Cardinality(S) -> S] : \A i, j \in 1..Cardinality(S) : i # j => s[i] # s[j]}

IsPrefix(d, p) == Len(d) <= Len(p) /\ SubSeq(p, 1, Len(d)) = d

\* Path.name
PathName(p) == p[Len(p)]

\* Path.parent: the parent of the root is the root, the parent of a single
\* relative part is "." (no parts)
PathParent(p) ==
    IF p = <<"/">> THEN p
    ELSE IF Len(p) <= 1 THEN <<>>
    ELSE SubSeq(p, 1, Len(p) - 1)

\* Path.relative_to(base), base being a prefix of p
relative_to(p, base) == SubSeq(p, Len(base) + 1, Len(p))

\* the value of a parameter that was not passed / a local not yet assigned
None == <<"<None>">>
UNBOUND == <<"<unbound>">>

\* ------------------------------------------------------------------------
\* The file system: a function from the paths that exist to their text;
\* a directory that was created explicitly maps to DIR, the other
\* directories are the proper prefixes of the paths
\* ------------------------------------------------------------------------
DIR == <<"<dir>">>

is_file(fs, p) == p \in DOMAIN fs /\ fs[p] # DIR

is_dir(fs, p) ==
    \/ p \in DOMAIN fs /\ fs[p] = DIR
    \/ \E q \in DOMAIN fs : q # p /\ IsPrefix(p, q)

\* os.listdir
listdir(fs, d) == {q[Len(d) + 1] : q \in {r \in DOMAIN fs : r # d /\ IsPrefix(d, r)}}

Put(fs, p, text) == [q \in DOMAIN fs \cup {p} |-> IF q = p THEN text ELSE fs[q]]

\* Path.mkdir(parents=True, exist_ok=True)
mkdir(fs, d) == IF is_dir(fs, d) THEN fs ELSE Put(fs, d, DIR)

\* open(p, "w") ... f.write(text): the exception it raises, "none" if none
WriteError(fs, p) ==
    IF is_dir(fs, p) THEN "IsADirectoryError"
    ELSE IF ~is_dir(fs, PathParent(p)) THEN "FileNotFoundError"
    ELSE "none"

\* open(p, "r"): the exception it raises, "none" if none
ReadError(fs, p) ==
    IF is_dir(fs, p) THEN "IsADirectoryError"
    ELSE IF ~is_file(fs, p) THEN "FileNotFoundError"
    ELSE "none"

\* str.strip() of a text: leading and trailing blank lines go
RECURSIVE LStrip(_)
LStrip(t) == IF t # <<>> /\ Head(t) = "" THEN LStrip(Tail(t)) ELSE t

Strip(t) == Reverse(LStrip(Reverse(LStrip(t))))

RECURSIVE JoinBlank(_)
\* "\n\n".join(texts)
JoinBlank(ts) ==
    IF ts = <<>> THEN <<>>
    ELSE IF Len(ts) = 1 THEN ts[1]
    ELSE ts[1] \o <<"">> \o JoinBlank(Tail(ts))

\* ------------------------------------------------------------------------
\* auto_summary.py: find_all_python_files
\* ------------------------------------------------------------------------
\* Path(directory).rglob("*.py"): every entry below directory, file or
\* directory, whose name matches
rglob_py(fs, directory) ==
    {p \in DOMAIN fs : p # directory /\ IsPrefix(directory, p) /\ EndsWith(PathName(p), "py")}

\* set(exclude_dirs or [])
ExcludeSet(exclude_dirs) == IF exclude_dirs = None THEN {} ELSE Range(exclude_dirs)

\* the paths find_all_python_files returns, as a set (the order is the
\* order of the directory scan)
find_all_python_files(fs, directory, exclude_dirs) ==
    {p \in rglob_py(fs, directory) :
        ~\E k \in 1..Len(p) : p[k] \in ExcludeSet(exclude_dirs)}

\* ------------------------------------------------------------------------
\* auto_comment_functions.py: get_auto_docu_path
\* ------------------------------------------------------------------------
\* get_auto_docu_path returning the path of the source file itself: the
\* output is written in place
get_auto_docu_path_InPlace(fs, src, new_branch_root) ==
    IF ~is_file(fs, src)
    THEN [raised |-> "FileNotFoundError", path |-> UNBOUND, fs |-> fs]
    ELSE [raised |-> "none", path |-> src, fs |-> fs]

get_auto_docu_path(fs, src, new_branch_root) ==
    IF ~is_file(fs, src)
    THEN [raised |-> "FileNotFoundError", path |-> UNBOUND, fs |-> fs]
    ELSE LET project_root == PathParent(<<src[1]>>)
             sub_dirs     == relative_to(PathParent(src), project_root)
             dst_dir      == new_branch_root \o sub_dirs
         IN  [raised |-> "none",
              path   |-> dst_dir \o <<PathName(src)>>,
              fs     |-> mkdir(fs, dst_dir)]

\* ------------------------------------------------------------------------
\* auto_summary.py: generate_readme
\* ------------------------------------------------------------------------
\* a model call: the reply is a text, or RAISES when ollama.chat raises
RAISES == <<"<raises>">>

README_MD == "README.md"

\* output_path + '/README.md': defined for a str, a TypeError for a Path
ConcatError(ptype) == IF ptype = "str" THEN "none" ELSE "TypeError"

\* generate_readme(txt_dir, output_path) where output_path has type ptype
\* and the model answers reply: the exception raised, the model calls made
\* and the file system left behind
generate_readme(fs, txt_dir, output_path, ptype, reply) ==
    IF ~is_dir(fs, txt_dir)
    THEN [raised |-> "FileNotFoundError", calls |-> <<>>, fs |-> fs]
    ELSE
    LET txts == SelectSeq(SortNames(listdir(fs, txt_dir)), LAMBDA n : EndsWith(n, "txt"))
        unreadable == {i \in 1..Len(txts) : ReadError(fs, txt_dir \o <<txts[i]>>) # "none"}
        txt_contents == [i \in 1..Len(txts) |-> fs[txt_dir \o <<txts[i]>>]]
        combined_description == JoinBlank(txt_contents)
        call == [kind |-> "readme", arg |-> combined_description]
        dst == output_path \o <<README_MD>>
    IN  IF unreadable # {}
        THEN [raised |-> "IsADirectoryError", calls |-> <<>>, fs |-> fs]
        ELSE IF txt_contents = <<>>
        THEN [raised |-> "ValueError", calls |-> <<>>, fs |-> fs]
        ELSE IF reply = RAISES
        THEN [raised |-> "ModelError", calls |-> <<call>>, fs |-> fs]
        ELSE IF ConcatError(ptype) # "none"
        THEN [raised |-> ConcatError(ptype), calls |-> <<call>>, fs |-> fs]
        ELSE IF WriteError(fs, dst) # "none"
        THEN [raised |-> WriteError(fs, dst), calls |-> <<call>>, fs |-> fs]
        ELSE [raised |-> "none", calls |-> <<call>>,
              fs |-> Put(fs, dst, Strip(Strip(reply)))]

\* ------------------------------------------------------------------------
\* auto_comment_functions.py: clean_markdown_code_fence
\* ------------------------------------------------------------------------
\* the fence lines a model reply may hold, with line.strip() and
\* line.strip().lower(); ''' stands for the three backquotes of a Markdown
\* code fence, as in the docstring of clean_markdown_code_fence
LineTable == <<
    [line |-> "'''python",  strip |-> "'''python", lower |-> "'''python"],
    [line |-> "'''Python ", strip |-> "'''Python", lower |-> "'''python"],
    [line |-> "'''",        strip |-> "'''",       lower |-> "'''"],
    [line |-> " ''' ",      strip |-> "'''",       lower |-> "'''"] >>

InLineTable(l) == \E i \in 1..Len(LineTable) : LineTable[i].line = l

LineEntry(l) == LineTable[CHOOSE i \in 1..Len(LineTable) : LineTable[i].line = l]

\* line.strip() and line.strip().lower(); the other lines of the model have
\* no outer blanks and no capitals
line_strip(l) == IF InLineTable(l) THEN LineEntry(l).strip ELSE l

line_strip_lower(l) == IF InLineTable(l) THEN LineEntry(l).lower ELSE l

\* clean_markdown_code_fence without the test of line 47: a closing fence
\* stays in the file
clean_markdown_code_fence_LeadingOnly(t) ==
    LET l1 == IF t # <<>> /\ line_strip_lower(t[1]) = "'''python" THEN Tail(t) ELSE t
    IN  IF l1 = <<>> THEN <<"">> ELSE l1

\* the text clean_markdown_code_fence leaves in a file that holds text t
clean_markdown_code_fence(t) ==
    LET l1 == IF t # <<>> /\ line_strip_lower(t[1]) = "'''python" THEN Tail(t) ELSE t
        l2 == IF l1 # <<>> /\ line_strip(l1[Len(l1)]) = "'''"
              THEN SubSeq(l1, 1, Len(l1) - 1) ELSE l1
    IN  \* "\n".join(lines) + "\n": no line at all still leaves one line end
        IF l2 = <<>> THEN <<"">> ELSE l2

\* ------------------------------------------------------------------------
\* auto_summary.py: describe_directory_structure
\* ------------------------------------------------------------------------
max_depth == 3

README_1 == "README_1_directory_structure.txt"
README_2 == "README_2_directory_summary.txt"
README_3 == "README_3_job_summaries.txt"

\* item.startswith('.')
StartsWithDot(n) == n = ".git"

RECURSIVE Spaces(_)
\* '  ' * indent_level
Spaces(n) == IF n = 0 THEN "" ELSE "  " \o Spaces(n - 1)

RECURSIVE walk_dir(_, _, _, _)
RECURSIVE walk_items(_, _, _, _, _)
\* the lines walk_dir appends for the sorted items of current_path
walk_items(fs, excl, current_path, indent_level, items) ==
    IF items = <<>> THEN <<>>
    ELSE LET item == Head(items)
             full_path == current_path \o <<item>>
             here ==
                 IF is_dir(fs, full_path)
                 THEN IF item \in excl \/ StartsWithDot(item) THEN <<>>
                      ELSE <<Spaces(indent_level) \o "- " \o item \o "/">>
                             \o walk_dir(fs, excl, full_path, indent_level + 1)
                 ELSE IF StartsWithDot(item) THEN <<>>
                      ELSE <<Spaces(indent_level) \o "- " \o item>>
         IN  here \o walk_items(fs, excl, current_path, indent_level, Tail(items))

\* walk_dir without the test of line 55: the walk has no depth limit
walk_dir_NoLimit(fs, excl, current_path, indent_level) ==
    walk_items(fs, excl, current_path, indent_level,
               SortNames(listdir(fs, current_path)))

walk_dir(fs, excl, current_path, indent_level) ==
    IF indent_level > max_depth THEN <<>>
    ELSE walk_items(fs, excl, current_path, indent_level,
                    SortNames(listdir(fs, current_path)))

\* describe_directory_structure(directory, output_path, exclude_dirs): the
\* exception raised and the file system left.  With exclude_dirs None the
\* test `item in exclude_dirs` of line 64 raises for the first directory the
\* walk meets, which is one directly below `dir` if there is any
describe_directory_structure(fs, dir, output_path, excl_list) ==
    LET output == <<"# Directory structure for " \o PathName(dir)>>
                    \o walk_dir(fs, Range(excl_list), dir, 0)
        directory_desc_path == output_path \o <<README_1>>
    IN  IF ~is_dir(fs, dir)
        THEN [raised |-> "FileNotFoundError", fs |-> fs]
        ELSE IF excl_list = None
                  /\ \E item \in listdir(fs, dir) : is_dir(fs, dir \o <<item>>)
        THEN [raised |-> "TypeError", fs |-> fs]
        ELSE IF WriteError(fs, directory_desc_path) # "none"
        THEN [raised |-> WriteError(fs, directory_desc_path), fs |-> fs]
        ELSE [raised |-> "none", fs |-> Put(fs, directory_desc_path, output)]

\* ------------------------------------------------------------------------
\* auto_summary.py: summarize_directory
\* ------------------------------------------------------------------------
\* a call with too few positional arguments, or too many, does not bind
BindError(given, least, most) ==
    IF given < least \/ given > most THEN "TypeError" ELSE "none"

\* describe_directory_structure has two parameters without default, six in
\* all; line 104 passes one argument
DescribeRequired == 2
DescribeParams == 6
DescribeGivenAt104 == 1

\* Path.replace(target) takes one argument; lines 136 and 144 pass two
PathReplaceParams == 1
PathReplaceGiven == 2

SummaryReplies == {<<"summary">>}

RECURSIVE summarize_loop(_, _, _, _, _)
\* the loop of lines 109-144 from file i on; replies[i] holds the replies
\* to the two requests about file i; acc is what the loop did so far
summarize_loop(fs, files, i, replies, acc) ==
    IF i > Len(files) \/ acc.raised # "none" THEN acc
    ELSE
    LET py_file == files[i]
        r == replies[i]
        readErr == ReadError(fs, py_file)
        call1 == [kind |-> "summary", arg |-> <<>>]
        call2 == [kind |-> "processes", arg |-> <<>>]
        \* the model calls the try block gets to make
        made == IF readErr # "none" THEN <<>>
                ELSE IF r.summary = RAISES THEN <<call1>>
                ELSE <<call1, call2>>
        tryFails == readErr # "none" \/ r.summary = RAISES \/ r.processes = RAISES
        replaceErr == BindError(PathReplaceGiven, PathReplaceParams, PathReplaceParams)
        head == "### " \o PathName(py_file)
        step ==
            IF replaceErr # "none"
            THEN \* line 136 raises inside the try, or the try failed before;
                 \* either way the handler runs line 144, which raises again
                 [acc EXCEPT !.raised = replaceErr,
                             !.calls = @ \o made,
                             !.read = @ \cup (IF readErr = "none" THEN {py_file} ELSE {})]
            ELSE IF tryFails
            THEN [acc EXCEPT !.calls = @ \o made,
                             !.read = @ \cup (IF readErr = "none" THEN {py_file} ELSE {}),
                             !.sections = Append(@, [file |-> py_file, kind |-> "error"]),
                             !.text = @ \o <<head, "[Error reading or summarizing file]", "">>]
            ELSE [acc EXCEPT !.calls = @ \o made,
                             !.read = @ \cup {py_file},
                             !.sections = Append(@, [file |-> py_file, kind |-> "summary"]),
                             !.text = @ \o <<head, "file_summary: " \o r.summary[1],
                                             "file_processes: " \o r.processes[1], "">>]
    IN  summarize_loop(fs, files, i + 1, replies, step)

\* what summarize_directory has done when it ends
SummaryNone(fs) ==
    [raised |-> "none", calls |-> <<>>, read |-> {}, sections |-> <<>>,
     text |-> <<>>, fs |-> fs]

\* summarize_directory, line 104: the exception the call of
\* describe_directory_structure(directory) raises, "none" if none
summarize_entry_error == BindError(DescribeGivenAt104, DescribeRequired, DescribeParams)

\* summarize_directory, lines 106-168, where the scan delivers the files in
\* the order `files`, replies[i] answers the requests about file i and
\* dir_reply the request about the report
summarize_body(fs, dir, files, replies, dir_reply) ==
    LET loop == summarize_loop(fs, files, 1, replies, SummaryNone(fs))
        job_summary_path == dir \o <<README_3>>
        report == <<"# Codebase Summary", "">> \o loop.text
        call == [kind |-> "directory", arg |-> report]
        directory_summary ==
            IF dir_reply = RAISES THEN <<"###", "[Error reading or summarizing directory]", "">>
            ELSE Strip(dir_reply)
        summary_path == dir \o <<README_2>>
    IN  IF loop.raised # "none" THEN loop
        ELSE IF WriteError(fs, job_summary_path) # "none"
        THEN [loop EXCEPT !.raised = WriteError(fs, job_summary_path)]
        ELSE [loop EXCEPT !.calls = Append(@, call),
                          !.fs = Put(Put(fs, job_summary_path, report), summary_path,
                                     <<"# Directory Summary", "">> \o directory_summary)]

VARIABLES
    \* --- generate_docstring_suggestions / insert_docstrings
    source,       \* the file text read by extract_functions_missing_docstrings
    missing_funcs,\* the list of functions missing a docstring
    docstrings,   \* the docstrings gathered so far
    lines,        \* the list `lines` of insert_docstrings
    todo,         \* the pairs insert_docstrings still has to visit
    inserted,     \* history: the insert_line of every insertion so far
    requests,     \* history: the node and the outcome of every model request so far
    written,      \* the text written back to file_path, NotWritten if none
    dpc,          \* position in generate_docstring_suggestions
    \* --- the environment of the path functions and of the pipeline
    fs,           \* the file system
    directory,    \* the root directory the program is run on
    exclude_dirs, \* the exclude_dirs argument: a list of names, or None
    raised,       \* the exception that ended the call, "none" if none
    calls,        \* history: the model calls made, in order
    \* --- a path function called on its own
    fpc,          \* "ready", then the function that was called
    fargs,        \* the arguments of that call and the file system before it
    result,       \* what it returned
    \* --- orchestrate_all and the auto_comment call it is in
    opc,          \* position in orchestrate_all
    all_files,    \* the list the current loop runs over
    idx,          \* index in all_files of the file the loop is at
    cpc,          \* position in auto_comment, "idle" outside of it
    original_code,        \* locals of auto_comment
    existing_commenting,
    needs_commenting,
    new_path,
    un_commented_code,
    hist          \* history of the run (see HistInit)

docVars == <<source, missing_funcs, docstrings, lines, todo, inserted,
             requests, written, dpc>>
envVars == <<fs, directory, exclude_dirs, raised, calls>>
fnVars == <<fpc, fargs, result>>

acVars == <<cpc, original_code, existing_commenting, needs_commenting,
            new_path, un_commented_code>>
orchVars == <<opc, all_files, idx, acVars, hist>>

vars == <<docVars, envVars, fnVars, orchVars>>

\* the variables of a part of the program that a specification does not run
DocOff ==
    /\ source = <<>> /\ missing_funcs = <<>> /\ docstrings = <<>>
    /\ lines = <<>> /\ todo = <<>> /\ inserted = <<>> /\ requests = <<>>
    /\ written = NotWritten /\ dpc = "off"

EnvOff ==
    /\ fs = <<>> /\ directory = <<>> /\ exclude_dirs = None
    /\ raised = "none" /\ calls = <<>>

FnOff == fpc = "off" /\ fargs = <<>> /\ result = <<>>

OrchOff ==
    /\ opc = "off" /\ all_files = <<>> /\ idx = 0 /\ cpc = "off"
    /\ original_code = <<>> /\ existing_commenting = <<>> /\ needs_commenting = FALSE
    /\ new_path = UNBOUND /\ un_commented_code = <<>> /\ hist = <<>>

TODO_DOC == "TODO"
DocReplies == {"gen"}

DocInit ==
    /\ source \in Sources
    /\ missing_funcs = <<>>
    /\ docstrings = <<>>
    /\ lines = <<>>
    /\ todo = <<>>
    /\ inserted = <<>>
    /\ requests = <<>>
    /\ written = NotWritten
    /\ dpc = "extract"
    /\ EnvOff /\ FnOff /\ OrchOff

\* generate_docstring_suggestions, line 92
Extract ==
    /\ dpc = "extract"
    /\ missing_funcs' = extract_functions_missing_docstrings(source)
    /\ dpc' = "suggest"
    /\ UNCHANGED <<source, docstrings, lines, todo, inserted, requests, written>>
    /\ UNCHANGED <<envVars, fnVars, orchVars>>

\* one iteration of the loop of lines 95-106: the request answers or raises
Suggest ==
    /\ dpc = "suggest"
    /\ Len(docstrings) < Len(missing_funcs)
    /\ LET node == missing_funcs[Len(docstrings) + 1]
       IN  \/ \E d \in DocReplies :
                 /\ requests' = Append(requests, [node |-> node, raised |-> FALSE])
                 /\ docstrings' = Append(docstrings, d)
           \/ /\ requests' = Append(requests, [node |-> node, raised |-> TRUE])
              /\ docstrings' = Append(docstrings, TODO_DOC)
    /\ UNCHANGED <<source, missing_funcs, lines, todo, inserted, written, dpc>>
    /\ UNCHANGED <<envVars, fnVars, orchVars>>

\* EndSuggest with the test of line 108 left out: the file is rewritten
\* whether or not a function lacked a docstring
EndSuggest_NoTest ==
    /\ dpc = "suggest"
    /\ Len(docstrings) = Len(missing_funcs)
    /\ lines' = SplitLines(source)
    /\ todo' = InsertOrder(missing_funcs, docstrings)
    /\ dpc' = "insert"
    /\ UNCHANGED <<source, missing_funcs, docstrings, inserted, requests, written>>
    /\ UNCHANGED <<envVars, fnVars, orchVars>>

\* line 108 and the entry of insert_docstrings (line 67)
EndSuggest ==
    /\ dpc = "suggest"
    /\ Len(docstrings) = Len(missing_funcs)
    /\ IF missing_funcs # <<>>
       THEN /\ lines' = SplitLines(source)
            /\ todo' = InsertOrder(missing_funcs, docstrings)
            /\ dpc' = "insert"
       ELSE /\ dpc' = "done"
            /\ UNCHANGED <<lines, todo>>
    /\ UNCHANGED <<source, missing_funcs, docstrings, inserted, requests, written>>
    /\ UNCHANGED <<envVars, fnVars, orchVars>>

\* one iteration of the loop of insert_docstrings (lines 70-74)
InsertStep ==
    /\ dpc = "insert"
    /\ todo # <<>>
    /\ lines' = InsertOne(source, lines, Head(todo))
    /\ inserted' = Append(inserted, Body0Lineno(source, Head(todo).node))
    /\ todo' = Tail(todo)
    /\ UNCHANGED <<source, missing_funcs, docstrings, requests, written, dpc>>
    /\ UNCHANGED <<envVars, fnVars, orchVars>>

\* insert_docstrings returns (line 76) and the file is rewritten (110-112)
WriteBack ==
    /\ dpc = "insert"
    /\ todo = <<>>
    /\ written' = lines
    /\ dpc' = "done"
    /\ UNCHANGED <<source, missing_funcs, docstrings, lines, todo, inserted, requests>>
    /\ UNCHANGED <<envVars, fnVars, orchVars>>

DocNext == Extract \/ Suggest \/ EndSuggest \/ InsertStep \/ WriteBack

SpecDoc == DocInit /\ [][DocNext]_vars

\* ------------------------------------------------------------------------
\* The path functions called on their own (SpecFn)
\* ------------------------------------------------------------------------
\* most entries a directory tree starts with
MaxEntries == 3

\* the directories the functions are called on
FnDirs == {<<"A">>, <<"/", "A">>, <<"venv", "A">>}

\* the text of a source file: a comment line and a line of code
PY_TEXT == <<"# old", "code">>

\* the entries a tree below a directory is made of
TreeEntries ==
    {[rel |-> <<"m.py">>,                             text |-> PY_TEXT],
     [rel |-> <<"B", "C.py">>,                        text |-> PY_TEXT],
     [rel |-> <<"venv", "m.py">>,                     text |-> PY_TEXT],
     [rel |-> <<"B", "d.py">>,                        text |-> DIR],
     [rel |-> <<"notes.txt">>,                        text |-> <<"notes">>],
     [rel |-> <<".git", "notes.txt">>,                text |-> <<"notes">>],
     [rel |-> <<"B", "B", "B", "B", "m.py">>,         text |-> PY_TEXT],
     [rel |-> <<"README_1_directory_structure.txt">>, text |-> <<"# Directory structure", "">>]}

Trees == {T \in SUBSET TreeEntries : Cardinality(T) <= MaxEntries}

\* the file system that holds the tree T below directory d
MakeFs(d, T) ==
    [p \in {d \o e.rel : e \in T} |->
        (CHOOSE e \in T : d \o e.rel = p).text]

ExcludeChoices == {None, <<>>, <<"venv">>, <<"B", "__pycache__">>}

ReadmeReplies == {<<"", "# Title", "">>, <<"# Title", "", "text">>}

FnInit ==
    /\ directory \in FnDirs
    /\ \E T \in Trees : fs = MakeFs(directory, T)
    /\ exclude_dirs \in ExcludeChoices
    /\ raised = "none"
    /\ calls = <<>>
    /\ fpc = "ready"
    /\ fargs = <<>>
    /\ result = <<>>
    /\ DocOff /\ OrchOff

\* find_all_python_files(directory, exclude_dirs)
CallFind ==
    /\ fpc = "ready"
    /\ fpc' = "find"
    /\ fargs' = [directory |-> directory, exclude_dirs |-> exclude_dirs, fs0 |-> fs]
    /\ result' \in Perms(find_all_python_files(fs, directory, exclude_dirs))
    /\ UNCHANGED <<envVars, docVars, orchVars>>

\* get_auto_docu_path(src, new_branch_root)
CallGetPath ==
    /\ fpc = "ready"
    /\ \E src \in DOMAIN fs \cup {directory \o <<"D", "C.py">>},
          root \in {directory \o <<"D">>, directory \o <<"auto_docu_output">>} :
          LET r == get_auto_docu_path(fs, src, root)
          IN  /\ fargs' = [src |-> src, new_branch_root |-> root, fs0 |-> fs]
              /\ result' = r.path
              /\ raised' = r.raised
              /\ fs' = r.fs
    /\ fpc' = "path"
    /\ UNCHANGED <<directory, exclude_dirs, calls, docVars, orchVars>>

\* generate_readme(txt_dir, output_path), both the directory, passed as str
\* or as Path
CallReadme ==
    /\ fpc = "ready"
    /\ \E ptype \in {"str", "Path"}, reply \in ReadmeReplies \cup {RAISES} :
          LET r == generate_readme(fs, directory, directory, ptype, reply)
          IN  /\ fargs' = [txt_dir |-> directory, output_path |-> directory,
                           ptype |-> ptype, reply |-> reply, fs0 |-> fs]
              /\ raised' = r.raised
              /\ calls' = r.calls
              /\ fs' = r.fs
    /\ fpc' = "readme"
    /\ UNCHANGED <<directory, exclude_dirs, result, docVars, orchVars>>

\* describe_directory_structure(directory, output_path, exclude_dirs) with
\* the directory itself or a sub-directory D as output_path
CallDescribe ==
    /\ fpc = "ready"
    /\ \E output_path \in {directory, directory \o <<"D">>} :
          LET r == describe_directory_structure(fs, directory, output_path, exclude_dirs)
          IN  /\ fargs' = [directory |-> directory, output_path |-> output_path,
                           exclude_dirs |-> exclude_dirs, fs0 |-> fs]
              /\ raised' = r.raised
              /\ fs' = r.fs
    /\ fpc' = "describe"
    /\ UNCHANGED <<directory, exclude_dirs, calls, result, docVars, orchVars>>

FnNext == CallFind \/ CallGetPath \/ CallReadme \/ CallDescribe

SpecFn == FnInit /\ [][FnNext]_vars

\* ------------------------------------------------------------------------
\* auto_docu.py: orchestrate_all, with auto_comment one model call at a
\* time (Spec)
\* ------------------------------------------------------------------------
OrchDirs == {<<"A">>}

\* what a tree may hold when the program is started: the entries of
\* TreeEntries and a file left in the output tree by an earlier run
OrchEntries ==
    {e \in TreeEntries : e.rel \in {<<"m.py">>, <<"B", "C.py">>, <<"venv", "m.py">>,
                                     <<"B", "d.py">>, <<"notes.txt">>}}
        \cup {[rel |-> <<"auto_docu_output", "m.py">>, text |-> PY_TEXT]}

\* most entries the tree holds when the program is started
MaxFiles == 2

OrchTrees == {T \in SUBSET OrchEntries : Cardinality(T) <= MaxFiles}

OrchExcludes == {None, <<>>, <<"B", "__pycache__">>}

\* Path(directory + '/auto_docu_output')
auto_docu_path(dir) == dir \o <<"auto_docu_output">>

\* line 27
DefaultExcludes == <<"venv", "__pycache__">>

ClassifyReplies == {<<"light commenting">>}

\* str.replace('commenting', '')
replace_commenting(t) ==
    [i \in 1..Len(t) |-> IF t[i] = "light commenting" THEN "light " ELSE t[i]]

CompareReplies == {<<"Very different">>, <<"similar">>}

\* str.lower()
lower(t) ==
    [i \in 1..Len(t) |-> IF t[i] = "Very different" THEN "very different" ELSE t[i]]

\* 'different' in t
contains_different(t) ==
    \E i \in 1..Len(t) : t[i] \in {"very different", "different"}

StripReplies == {<<"'''python", "code", "'''">>, <<"code">>}
ReaddReplies == {<<"'''Python ", "# note", "code", " ''' ">>, <<"# note", "code">>}

NoReplies == [strip |-> <<>>, readd |-> <<>>]

NoCall == [file |-> <<>>, needs |-> FALSE, failed |-> {}, returned |-> FALSE,
           original |-> <<>>, at |-> "idle", replies |-> NoReplies]

\* the history of a run
HistInit ==
    [stages        |-> <<>>,   \* the stages entered, in order
     first_files   |-> <<>>,   \* the files discovered at line 30
     commented     |-> {},     \* the files auto_comment returned for
     comment_wrote |-> {},     \* the mirrored paths auto_comment wrote
     doc_files     |-> <<>>,   \* the files discovered at line 45
     summary_files |-> <<>>,   \* the files summarize_directory discovered
     summary_read  |-> {},     \* the files summarize_directory read
     sections      |-> <<>>,   \* the sections of its report
     any_failed    |-> FALSE,  \* a model call of the run raised
     ac_failed     |-> {},     \* those of the current auto_comment call
     ac_replies    |-> NoReplies, \* its strip and re-add replies
     last_ac       |-> NoCall, \* how the auto_comment call that just ended ended
     fresh         |-> TRUE,   \* no output tree when the run began
     raisedIn      |-> "none"] \* the function the exception left

OrchInit ==
    /\ directory \in OrchDirs
    /\ \E T \in OrchTrees : fs = MakeFs(directory, T)
    /\ exclude_dirs \in OrchExcludes
    /\ raised = "none"
    /\ calls = <<>>
    /\ opc = "start"
    /\ all_files = <<>>
    /\ idx = 0
    /\ cpc = "idle"
    /\ original_code = <<>>
    /\ existing_commenting = <<>>
    /\ needs_commenting = FALSE
    /\ new_path = UNBOUND
    /\ un_commented_code = <<>>
    /\ hist = [HistInit EXCEPT !.fresh = ~is_dir(fs, auto_docu_path(directory))]
    /\ DocOff /\ FnOff

\* how hist changes when the auto_comment call for file ends
AcEnd(h, file, needs, returned) ==
    [h EXCEPT !.last_ac = [file |-> file, needs |-> needs, failed |-> h.ac_failed,
                           returned |-> returned, original |-> original_code,
                           at |-> cpc, replies |-> h.ac_replies],
              !.ac_failed = {},
              !.ac_replies = NoReplies,
              !.commented = IF returned THEN @ \cup {file} ELSE @,
              !.raisedIn = IF returned THEN @ ELSE "auto_comment"]

NoteFailure(h, kind, reply) ==
    IF reply = RAISES
    THEN [h EXCEPT !.any_failed = TRUE, !.ac_failed = @ \cup {kind}]
    ELSE h

\* the reply to the strip or to the re-add request of the current call
NoteReply(h, kind, reply) ==
    IF kind = "strip" THEN [h EXCEPT !.ac_replies.strip = reply]
    ELSE [h EXCEPT !.ac_replies.readd = reply]

\* orchestrate_all, lines 21-35: exclude_dirs + [...] needs a list
OrchStart ==
    /\ opc = "start"
    /\ IF exclude_dirs = None
       THEN /\ raised' = "TypeError"
            /\ opc' = "raised"
            /\ hist' = [hist EXCEPT !.raisedIn = "orchestrate_all"]
            /\ UNCHANGED <<exclude_dirs, all_files, idx>>
       ELSE /\ exclude_dirs' = exclude_dirs \o DefaultExcludes
            /\ all_files' \in Perms(find_all_python_files(fs, directory, exclude_dirs'))
            /\ idx' = 1
            /\ opc' = "comment"
            /\ hist' = [hist EXCEPT !.stages = <<"discovery", "comment">>,
                                    !.first_files = all_files']
            /\ UNCHANGED raised
    /\ UNCHANGED <<fs, directory, calls, acVars, docVars, fnVars>>

\* auto_comment, lines 73-75: the file is read
CommentBegin ==
    /\ opc = "comment" /\ cpc = "idle" /\ idx <= Len(all_files)
    /\ LET file_path == all_files[idx]
           h == [hist EXCEPT !.ac_failed = {}, !.ac_replies = NoReplies,
                             !.last_ac = NoCall]
       IN  IF ReadError(fs, file_path) # "none"
           THEN /\ raised' = ReadError(fs, file_path)
                /\ opc' = "raised"
                /\ hist' = AcEnd(h, file_path, FALSE, FALSE)
                /\ UNCHANGED acVars
           ELSE /\ original_code' = fs[file_path]
                /\ cpc' = "classify"
                /\ new_path' = UNBOUND
                /\ hist' = h
                /\ UNCHANGED <<raised, opc, existing_commenting, needs_commenting,
                               un_commented_code>>
    /\ UNCHANGED <<fs, directory, exclude_dirs, calls, all_files, idx, docVars, fnVars>>

\* auto_comment, lines 78-101: the request that classifies the comments
Classify ==
    /\ cpc = "classify"
    /\ \E reply \in ClassifyReplies \cup {RAISES} :
          /\ existing_commenting' =
                 IF reply = RAISES THEN <<"unknown">> ELSE replace_commenting(reply)
          /\ hist' = NoteFailure(hist, "classify", reply)
    /\ calls' = Append(calls, [kind |-> "classify", arg |-> original_code])
    /\ cpc' = "compare"
    /\ UNCHANGED <<fs, directory, exclude_dirs, raised, opc, all_files, idx,
                   original_code, needs_commenting, new_path, un_commented_code,
                   docVars, fnVars>>

\* auto_comment, lines 104-127 and, when no change is needed, the else
\* branch of lines 204-209, whose first statement reads new_path
Compare ==
    /\ cpc = "compare"
    /\ calls' = Append(calls, [kind |-> "compare", arg |-> <<>>])
    /\ \E reply \in CompareReplies \cup {RAISES} :
          LET needs == IF reply = RAISES THEN FALSE
                       ELSE contains_different(lower(reply))
              h == NoteFailure(hist, "compare", reply)
              file_path == all_files[idx]
              g == get_auto_docu_path(fs, file_path, auto_docu_path(directory))
              err == IF new_path = UNBOUND THEN "UnboundLocalError"
                     ELSE IF g.raised # "none" THEN g.raised
                     ELSE WriteError(g.fs, g.path)
          IN  /\ needs_commenting' = needs
              /\ IF needs
                 THEN /\ cpc' = "strip"
                      /\ hist' = h
                      /\ UNCHANGED <<fs, raised, opc, idx, new_path>>
                 ELSE IF err # "none"
                 THEN /\ raised' = err
                      /\ opc' = "raised"
                      /\ cpc' = "idle"
                      /\ hist' = AcEnd(h, file_path, FALSE, FALSE)
                      /\ UNCHANGED <<fs, idx, new_path>>
                 ELSE /\ new_path' = UNBOUND
                      /\ fs' = Put(g.fs, g.path, original_code)
                      /\ cpc' = "idle"
                      /\ idx' = idx + 1
                      /\ hist' = [AcEnd(h, file_path, FALSE, TRUE) EXCEPT
                                     !.comment_wrote = @ \cup {g.path}]
                      /\ UNCHANGED <<raised, opc>>
    /\ UNCHANGED <<directory, exclude_dirs, all_files, original_code,
                   existing_commenting, un_commented_code, docVars, fnVars>>

\* auto_comment, lines 131-167: the request that strips the comments, the
\* write of its reply to the mirrored path, and the read back of line 165
Strip_ ==
    /\ cpc = "strip"
    /\ \E reply \in StripReplies \cup {RAISES} :
          LET h == NoteReply(NoteFailure(hist, "strip", reply), "strip", reply)
              file_path == all_files[idx]
              g == get_auto_docu_path(fs, file_path, auto_docu_path(directory))
              \* what the try block leaves: on an exception new_path keeps
              \* the value it had when the exception was raised
              bound == reply # RAISES /\ g.raised = "none"
              wrote == bound /\ WriteError(g.fs, g.path) = "none"
              fs1 == IF wrote THEN Put(g.fs, g.path, clean_markdown_code_fence(reply))
                     ELSE IF bound THEN g.fs ELSE fs
              err == IF ~bound THEN "UnboundLocalError" ELSE ReadError(fs1, g.path)
          IN  /\ calls' = Append(calls, [kind |-> "strip", arg |-> original_code])
              /\ fs' = fs1
              /\ IF err # "none"
                 THEN /\ raised' = err
                      /\ opc' = "raised"
                      /\ cpc' = "idle"
                      /\ hist' = AcEnd(h, file_path, TRUE, FALSE)
                      /\ UNCHANGED <<new_path, un_commented_code>>
                 ELSE /\ new_path' = g.path
                      /\ un_commented_code' = fs1[g.path]
                      /\ cpc' = "readd"
                      /\ hist' = [h EXCEPT !.comment_wrote =
                                      IF wrote THEN @ \cup {g.path} ELSE @]
                      /\ UNCHANGED <<raised, opc>>
    /\ UNCHANGED <<directory, exclude_dirs, all_files, idx, original_code,
                   existing_commenting, needs_commenting, docVars, fnVars>>

\* auto_comment, lines 169-202: the request that adds the comments and the
\* write of its reply; an exception is printed and the call returns
ReAdd ==
    /\ cpc = "readd"
    /\ \E reply \in ReaddReplies \cup {RAISES} :
          LET h == NoteReply(NoteFailure(hist, "readd", reply), "readd", reply)
              file_path == all_files[idx]
              g == get_auto_docu_path(fs, file_path, auto_docu_path(directory))
              bound == reply # RAISES /\ g.raised = "none"
              wrote == bound /\ WriteError(g.fs, g.path) = "none"
          IN  /\ calls' = Append(calls, [kind |-> "readd", arg |-> un_commented_code])
              /\ fs' = IF wrote THEN Put(g.fs, g.path, clean_markdown_code_fence(reply))
                       ELSE IF bound THEN g.fs ELSE fs
              /\ hist' = [AcEnd(h, file_path, TRUE, TRUE) EXCEPT !.comment_wrote =
                              IF wrote THEN @ \cup {g.path} ELSE @]
    \* the call returns: its locals are gone
    /\ cpc' = "idle"
    /\ original_code' = <<>>
    /\ existing_commenting' = <<>>
    /\ needs_commenting' = FALSE
    /\ new_path' = UNBOUND
    /\ un_commented_code' = <<>>
    /\ idx' = idx + 1
    /\ UNCHANGED <<directory, exclude_dirs, raised, opc, all_files, docVars, fnVars>>

\* orchestrate_all, lines 42-45: the comment loop is over, the output tree
\* is scanned
DocStageStart ==
    /\ opc = "comment" /\ cpc = "idle" /\ idx > Len(all_files)
    /\ all_files' \in Perms(find_all_python_files(fs, auto_docu_path(directory), None))
    /\ idx' = 1
    /\ opc' = "docstring"
    /\ hist' = [hist EXCEPT !.stages = Append(@, "docstring"), !.doc_files = all_files',
                            !.last_ac = NoCall]
    /\ UNCHANGED <<envVars, acVars, docVars, fnVars>>

\* the texts of the pipeline end with the line "code", which stands for
\* the one statement of the file; when that statement is a function
\* without docstring its body is on the same line, so that
\* node.body[0].lineno is the number of the last line
PipelineBody0Lineno(text) == Len(text)

\* orchestrate_all, lines 47-49: generate_docstring_suggestions on one file
\* of the output tree.  The text does not parse, or no function lacks a
\* docstring, or one does: then one request is made and the docstring (or
\* the placeholder) is inserted at index body[0].lineno - 1
DocstringFile ==
    /\ opc = "docstring" /\ idx <= Len(all_files)
    /\ LET file_path == all_files[idx]
       IN  IF ReadError(fs, file_path) # "none"
           THEN /\ raised' = ReadError(fs, file_path)
                /\ opc' = "raised"
                /\ hist' = [hist EXCEPT !.raisedIn = "generate_docstring_suggestions"]
                /\ UNCHANGED <<fs, calls, idx>>
           ELSE \/ /\ raised' = "SyntaxError"
                   /\ opc' = "raised"
                   /\ hist' = [hist EXCEPT !.raisedIn = "generate_docstring_suggestions"]
                   /\ UNCHANGED <<fs, calls, idx>>
                \/ /\ idx' = idx + 1
                   /\ UNCHANGED <<fs, calls, raised, opc, hist>>
                \/ /\ \E doc \in DocReplies \cup {TODO_DOC} :
                        /\ fs' = Put(fs, file_path,
                                     ListInsert(fs[file_path],
                                                PipelineBody0Lineno(fs[file_path]) - 1, doc))
                        /\ hist' = [hist EXCEPT !.any_failed = @ \/ doc = TODO_DOC]
                   /\ calls' = Append(calls, [kind |-> "docstring", arg |-> <<>>])
                   /\ idx' = idx + 1
                   /\ UNCHANGED <<raised, opc>>
    /\ UNCHANGED <<directory, exclude_dirs, all_files, acVars, docVars, fnVars>>

\* orchestrate_all, lines 51-52
OrchDescribe ==
    /\ opc = "docstring" /\ idx > Len(all_files)
    /\ LET r == describe_directory_structure(fs, directory, auto_docu_path(directory),
                                             exclude_dirs)
       IN  /\ fs' = r.fs
           /\ raised' = r.raised
           /\ opc' = IF r.raised = "none" THEN "tail" ELSE "raised"
           /\ hist' = [hist EXCEPT !.stages = Append(@, "describe"),
                                   !.raisedIn = IF r.raised = "none" THEN @
                                                ELSE "describe_directory_structure"]
    /\ UNCHANGED <<directory, exclude_dirs, calls, all_files, idx, acVars, docVars, fnVars>>

SummaryReplySets ==
    [summary : SummaryReplies \cup {RAISES}, processes : SummaryReplies \cup {RAISES}]

\* orchestrate_all, lines 57-60, on the file system fs1 that
\* summarize_directory left and after the model calls cs
ReadmeAndEnd(fs1, cs, h) ==
    \E readme_reply \in ReadmeReplies \cup {RAISES} :
        LET r == generate_readme(fs1, auto_docu_path(directory),
                                 auto_docu_path(directory), "Path", readme_reply)
        IN  /\ raised' = r.raised
            /\ opc' = IF r.raised = "none" THEN "done" ELSE "raised"
            /\ fs' = r.fs
            /\ calls' = cs \o r.calls
            /\ hist' = [h EXCEPT !.stages = Append(@, "readme"),
                                 !.any_failed = @ \/ readme_reply = RAISES,
                                 !.raisedIn = IF r.raised = "none" THEN @
                                              ELSE "generate_readme"]

\* orchestrate_all, lines 54-60: summarize_directory, then generate_readme
\* on the output tree (a Path), then the end
OrchTail ==
    /\ opc = "tail"
    /\ LET h == [hist EXCEPT !.stages = Append(@, "summarize")]
       IN  IF summarize_entry_error # "none"
           THEN /\ raised' = summarize_entry_error
                /\ opc' = "raised"
                /\ hist' = [h EXCEPT !.raisedIn = "summarize_directory"]
                /\ UNCHANGED <<fs, calls>>
           ELSE \E files \in Perms(find_all_python_files(fs, auto_docu_path(directory),
                                                         exclude_dirs)),
                   dir_reply \in SummaryReplies \cup {RAISES} :
                \E replies \in [1..Len(files) -> SummaryReplySets] :
                   LET s == summarize_body(fs, auto_docu_path(directory), files,
                                           replies, dir_reply)
                       hs == [h EXCEPT !.summary_files = files,
                                       !.summary_read = s.read,
                                       !.sections = s.sections,
                                       !.any_failed = @ \/ dir_reply = RAISES
                                           \/ \E i \in 1..Len(files) :
                                                  RAISES \in {replies[i].summary,
                                                              replies[i].processes}]
                   IN  IF s.raised # "none"
                       THEN /\ raised' = s.raised
                            /\ opc' = "raised"
                            /\ fs' = s.fs
                            /\ calls' = calls \o s.calls
                            /\ hist' = [hs EXCEPT !.raisedIn = "summarize_directory"]
                       ELSE ReadmeAndEnd(s.fs, calls \o s.calls, hs)
    /\ UNCHANGED <<directory, exclude_dirs, all_files, idx, acVars, docVars, fnVars>>

Next ==
    \/ OrchStart
    \/ CommentBegin
    \/ Classify
    \/ Compare
    \/ Strip_
    \/ ReAdd
    \/ DocStageStart
    \/ DocstringFile
    \/ OrchDescribe
    \/ OrchTail

Spec == OrchInit /\ [][Next]_vars

\* ------------------------------------------------------------------------
\* Properties of the docstring inserter (SpecDoc)
\* ------------------------------------------------------------------------
\* position of the element of `written` that satisfies P, 0 if none
PosOfDoc(ls, node) ==
    LET S == {k \in 1..Len(ls) : ls[k].t = "doc" /\ ls[k].n = node}
    IN  IF S = {} THEN 0 ELSE CHOOSE k \in S : TRUE

PosOfSrc(ls, n) ==
    LET S == {k \in 1..Len(ls) : ls[k].t = "src" /\ ls[k].n = n}
    IN  IF S = {} THEN 0 ELSE CHOOSE k \in S : TRUE

\* C1: insert_docstrings splices highest line number first: the sequence of
\* insertion line numbers it uses is non-increasing, for every list of
\* functions extract_functions_missing_docstrings produces.
C1_InsertionsNonIncreasing ==
    \A i, j \in 1..Len(inserted) : i < j => inserted[i] >= inserted[j]

\* C10: in the text insert_docstrings returns, the docstring of every
\* function of func_nodes is the element directly before the function's
\* original first body statement and comes after the function's def line.
C10_DocstringDirectlyBeforeBody ==
    (dpc = "done" /\ written # NotWritten) =>
        \A x \in 1..Len(missing_funcs) :
            LET f == missing_funcs[x]
                k == PosOfDoc(written, f)
            IN  /\ k # 0
                /\ k + 1 = PosOfSrc(written, Body0Lineno(source, f))
                /\ PosOfSrc(written, f) < k

\* the elements of ls that came from the source
SourceElements(ls) == SelectSeq(ls, LAMBDA e : e.t = "src")

\* the elements of ls that are inserted docstrings
DocElements(ls) == SelectSeq(ls, LAMBDA e : e.t = "doc")

\* C15: insert_docstrings only inserts: after every iteration the list has
\* one more element per pair visited, and without the docstring elements it
\* is the list of the source lines in their order; the text returned has
\* one docstring element per pair.
C15_OnlyInserts ==
    /\ dpc = "insert" =>
           /\ Len(lines) = Len(source) + Len(inserted)
           /\ SourceElements(lines) = SplitLines(source)
           /\ Len(DocElements(lines)) = Len(inserted)
    /\ (dpc = "done" /\ written # NotWritten) =>
           /\ Len(written) = Len(source) + Len(missing_funcs)
           /\ SourceElements(written) = SplitLines(source)
           /\ \A x \in 1..Len(missing_funcs) :
                  Cardinality({k \in 1..Len(written) :
                                  written[k].t = "doc"
                                  /\ written[k].n = missing_funcs[x]}) = 1

\* the text of a file with a nested function and a function after it was
\* returned with a docstring for each
C15_Witness ==
    /\ dpc = "done" /\ written # NotWritten
    /\ Len(missing_funcs) >= 2
    /\ \E x \in 1..Len(missing_funcs) : source[missing_funcs[x]].depth > 0
    /\ \E x \in 1..Len(missing_funcs) : source[missing_funcs[x]].depth = 0

\* C11: generate_docstring_suggestions makes exactly one model request per
\* function missing a docstring, in the order of the list and without retry;
\* a request that raises leaves the placeholder for that function, so that
\* after the loop docstrings is as long as missing_funcs; the file is
\* rewritten when a function was missing a docstring and only then.
C11_OneRequestPerFunction ==
    /\ Len(requests) = Len(docstrings)
    /\ Len(requests) <= Len(missing_funcs)
    /\ \A i \in 1..Len(requests) :
           /\ requests[i].node = missing_funcs[i]
           /\ requests[i].raised => docstrings[i] = TODO_DOC
           /\ ~requests[i].raised => docstrings[i] \in DocReplies
    /\ dpc \in {"insert", "done"} => Len(docstrings) = Len(missing_funcs)
    /\ written # NotWritten => dpc = "done" /\ missing_funcs # <<>>
    /\ dpc = "done" => (written # NotWritten <=> missing_funcs # <<>>)

\* a file with two functions lacking a docstring was rewritten after one
\* request raised and the other answered
C11_Witness ==
    /\ dpc = "done"
    /\ written # NotWritten
    /\ \E i, j \in 1..Len(requests) : requests[i].raised /\ ~requests[j].raised

\* ------------------------------------------------------------------------
\* C6: find_all_python_files(directory, exclude_dirs) returns exactly the
\* *.py files below directory that are not inside a sub-directory of
\* directory whose name is in exclude_dirs; None or [] exclude nothing.
C6_FindReturnsExactlyTheFiles ==
    fpc = "find" =>
        Range(result) =
            {p \in DOMAIN fargs.fs0 :
                /\ is_file(fargs.fs0, p)
                /\ p # fargs.directory /\ IsPrefix(fargs.directory, p)
                /\ EndsWith(PathName(p), "py")
                /\ \A k \in (Len(fargs.directory) + 1)..(Len(p) - 1) :
                       p[k] \notin ExcludeSet(fargs.exclude_dirs)}

\* C7: get_auto_docu_path(src, new_branch_root) returns new_branch_root
\* followed by the parts of src below its first component ('A/B/C.py' under
\* 'A/D' gives 'A/D/B/C.py'), and raises FileNotFoundError when src is not
\* an existing file.
C7_MirrorPathDropsProjectRoot ==
    fpc = "path" =>
        IF is_file(fargs.fs0, fargs.src)
        THEN raised = "none" /\ result = fargs.new_branch_root \o Tail(fargs.src)
        ELSE raised = "FileNotFoundError"

\* C9: generate_readme joins the .txt files of txt_dir in sorted name order
\* with a blank line between them, makes exactly one model call with that
\* text and writes the stripped reply to README.md under output_path; with
\* no .txt file it raises ValueError before any model call or write.
C9_ReadmeWritten ==
    (fpc = "readme" /\ is_dir(fargs.fs0, fargs.txt_dir)) =>
        LET txts == SelectSeq(SortNames(listdir(fargs.fs0, fargs.txt_dir)),
                              LAMBDA n : EndsWith(n, "txt"))
            text == JoinBlank([i \in 1..Len(txts) |-> fargs.fs0[fargs.txt_dir \o <<txts[i]>>]])
            dst  == fargs.output_path \o <<README_MD>>
        IN  IF txts = <<>>
            THEN raised = "ValueError" /\ calls = <<>> /\ fs = fargs.fs0
            ELSE /\ Len(calls) = 1 /\ calls[1].arg = text
                 /\ fargs.reply # RAISES =>
                        /\ raised = "none"
                        /\ is_file(fs, dst)
                        /\ fs[dst] = Strip(fargs.reply)

\* every file and directory below directory d
EntriesBelow(f, d) ==
    UNION {{SubSeq(q, 1, k) : k \in (Len(d) + 1)..Len(q)} :
              q \in {r \in DOMAIN f : IsPrefix(d, r)}}

\* the entries the listing of d is to hold: at most max_depth directories
\* above them below d, no name on the way that starts with a dot, no
\* directory on the way (the entry included) whose name is in excl
ToBeListed(f, d, excl) ==
    {p \in EntriesBelow(f, d) :
        /\ Len(p) - Len(d) - 1 <= max_depth
        /\ \A k \in (Len(d) + 1)..Len(p) :
               /\ ~StartsWithDot(p[k])
               /\ is_dir(f, SubSeq(p, 1, k)) => p[k] \notin excl}

\* p comes before q when the tree is walked with the names of every
\* directory in sorted order
WalkedBefore(p, q) ==
    \E k \in 1..Len(q) :
        /\ k - 1 <= Len(p) /\ SubSeq(p, 1, k - 1) = SubSeq(q, 1, k - 1)
        /\ \/ Len(p) = k - 1
           \/ Len(p) >= k /\ NameRank(p[k]) < NameRank(q[k])

RECURSIVE InWalkOrder(_)
InWalkOrder(S) ==
    IF S = {} THEN <<>>
    ELSE LET m == CHOOSE x \in S : \A y \in S \ {x} : WalkedBefore(x, y)
         IN  <<m>> \o InWalkOrder(S \ {m})

\* the line of the listing for entry p of directory d
ListingLine(f, d, p) ==
    Spaces(Len(p) - Len(d) - 1) \o "- " \o PathName(p)
        \o (IF is_dir(f, p) THEN "/" ELSE "")

\* C13: the listing describe_directory_structure writes is a header line
\* followed by one line per entry, every directory's entries in sorted name
\* order and indented by two spaces per level; it holds no entry deeper
\* than max_depth, no entry whose name starts with a dot, no directory named
\* in exclude_dirs nor anything beneath one; it is written to
\* README_1_directory_structure.txt under output_path and nothing else is
\* written.
C13_ListingOfTheTree ==
    (fpc = "describe" /\ raised = "none") =>
        LET f0 == fargs.fs0
            d == fargs.directory
            out == fargs.output_path \o <<README_1>>
            entries == InWalkOrder(ToBeListed(f0, d, ExcludeSet(fargs.exclude_dirs)))
        IN  /\ is_file(fs, out)
            /\ Len(fs[out]) = 1 + Len(entries)
            /\ fs[out][1] = "# Directory structure for " \o PathName(d)
            /\ \A i \in 1..Len(entries) : fs[out][i + 1] = ListingLine(f0, d, entries[i])
            /\ DOMAIN fs = DOMAIN f0 \cup {out}
            /\ \A q \in DOMAIN f0 \ {out} : fs[q] = f0[q]

\* a listing was written for a tree with an entry below the depth limit
\* that also holds a dot directory or a directory that is excluded
C13_Witness ==
    /\ fpc = "describe" /\ raised = "none"
    /\ fargs.directory \o <<"B", "B", "B", "B", "m.py">> \in DOMAIN fargs.fs0
    /\ \/ fargs.directory \o <<".git", "notes.txt">> \in DOMAIN fargs.fs0
       \/ /\ fargs.directory \o <<"venv", "m.py">> \in DOMAIN fargs.fs0
          /\ fargs.exclude_dirs = <<"venv">>
    /\ Len(fs[fargs.output_path \o <<README_1>>]) >= 5

\* ------------------------------------------------------------------------
\* Properties of the pipeline (Spec)
\* ------------------------------------------------------------------------
StagesEntered == Range(hist.stages)

\* the path get_auto_docu_path returns for a discovered file
MirrorOf(file) == get_auto_docu_path(fs, file, auto_docu_path(directory)).path

\* C2: when the comparison reply does not contain 'different', or the
\* comparison call raises, auto_comment writes the original text unchanged
\* to the mirrored path and returns without raising.
C2_NoChangeCopiesOriginal ==
    (hist.last_ac.file # <<>> /\ hist.last_ac.at = "compare") =>
        /\ hist.last_ac.returned
        /\ is_file(fs, MirrorOf(hist.last_ac.file))
        /\ fs[MirrorOf(hist.last_ac.file)] = hist.last_ac.original

\* a line that opens, or closes, a Markdown code fence
IsOpenFence(l) == l \in {"'''python", "'''Python "}

IsCloseFence(l) == l \in {"'''", " ''' "}

\* a model reply without its leading and trailing fence line
FenceRemoved(reply) ==
    LET a == IF IsOpenFence(reply[1]) THEN 2 ELSE 1
        b == IF IsCloseFence(reply[Len(reply)]) THEN Len(reply) - 1 ELSE Len(reply)
    IN  SubSeq(reply, a, b)

\* the auto_comment call that just ended made the re-add request
ReAddJustMade == hist.last_ac.file # <<>> /\ hist.last_ac.at = "readd"

\* C12: when the comparison reply contains 'different', the strip call is
\* made before the re-add call, the re-add prompt is built from the
\* fence-cleaned strip reply as written to the mirrored path and not from
\* the original code, and on return the mirrored file holds the re-add
\* reply without its leading and trailing fence line.
C12_StripThenReAdd ==
    ReAddJustMade =>
        LET n  == Len(calls)
            rd == calls[n]
            st == calls[n - 1]
            r  == hist.last_ac.replies
            mirror == MirrorOf(hist.last_ac.file)
        IN  /\ n >= 2
            /\ st.kind = "strip" /\ rd.kind = "readd"
            /\ st.arg = hist.last_ac.original
            /\ r.strip # RAISES
            /\ rd.arg = FenceRemoved(r.strip)
            /\ rd.arg # hist.last_ac.original
            /\ hist.last_ac.returned /\ hist.last_ac.needs
            /\ r.readd # RAISES =>
                   is_file(fs, mirror) /\ fs[mirror] = FenceRemoved(r.readd)

\* auto_comment has returned after a strip reply and a re-add reply that
\* both came wrapped in a code fence
C12_Witness ==
    /\ ReAddJustMade
    /\ cpc = "idle"
    /\ hist.last_ac.returned
    /\ hist.last_ac.replies.strip # RAISES /\ hist.last_ac.replies.readd # RAISES
    /\ IsOpenFence(hist.last_ac.replies.strip[1])
    /\ IsOpenFence(hist.last_ac.replies.readd[1])
    /\ fs[MirrorOf(hist.last_ac.file)] = <<"# note", "code">>

\* path p lies beneath the output tree of the run
InOutputTree(p) == IsPrefix(auto_docu_path(directory), p)

C3_ModelFailureIsContained ==
    (hist.last_ac.file # <<>> /\ hist.last_ac.failed # {}) =>
        hist.last_ac.returned /\ opc # "raised"

AllStages == <<"discovery", "comment", "docstring", "describe", "summarize", "readme">>

\* C4: run on a directory with at least one Python file, an explicit
\* exclude_dirs list and every model call succeeding, orchestrate_all goes
\* through its six stages and ends at 'Done!' with the three text artifacts
\* and README.md in the output directory.
C4_RunEndsDone ==
    (/\ opc \in {"done", "raised"}
     /\ exclude_dirs # None
     /\ hist.first_files # <<>>
     /\ \A i \in 1..Len(hist.first_files) : is_file(fs, hist.first_files[i])
     /\ ~hist.any_failed) =>
        /\ opc = "done"
        /\ hist.stages = AllStages
        /\ \A n \in {README_1, README_2, README_3, README_MD} :
               is_file(fs, auto_docu_path(directory) \o <<n>>)

\* C5: the docstring stage starts only after auto_comment has finished for
\* every discovered file; on a run that began without output tree the files
\* the docstring stage processes are the mirrored files the comment stage
\* wrote, and they are the files the summarization stage reads.
C5_StageFeedsNextStage ==
    /\ "docstring" \in StagesEntered => hist.commented = Range(hist.first_files)
    /\ (hist.fresh /\ "docstring" \in StagesEntered) =>
           Range(hist.doc_files) = hist.comment_wrote
    /\ (hist.fresh /\ "summarize" \in StagesEntered) =>
           hist.summary_read = hist.comment_wrote

\* C8: summarize_directory writes README_3_job_summaries.txt with one
\* section per discovered file, in discovery order, then the reply to one
\* request about the report (or a placeholder) to
\* README_2_directory_summary.txt, and returns without raising.
C8_SummariesWritten ==
    "summarize" \in StagesEntered =>
        /\ hist.raisedIn # "summarize_directory"
        /\ is_file(fs, auto_docu_path(directory) \o <<README_3>>)
        /\ is_file(fs, auto_docu_path(directory) \o <<README_2>>)
        /\ [i \in 1..Len(hist.sections) |-> hist.sections[i].file] = hist.summary_files
        /\ Len(hist.summary_files) =
               Cardinality(find_all_python_files(fs, auto_docu_path(directory), exclude_dirs))

====
